---------------------------- MODULE Spec2Model ----------------------------
(***************************************************************************)
(* Real-time room/game coordination of server/src/server.ts:               *)
(*   - the tic-tac-toe handlers 'joinRoom' and 'move' (SpecMatch);         *)
(*   - the type-race countdowns: the 'timer' handler with its lobby        *)
(*     interval and startGameClock with its race interval (SpecClock);     *)
(*   - connections that join one room after another (SpecRooms);           *)
(*   - countdowns of two games and late requests (SpecOverlap), and the    *)
(*     same under fair firing (SpecLive).                                  *)
(* Handlers run to completion on one event loop; the only suspension       *)
(* points are the awaited persistence calls, each of which is a separate   *)
(* step of the model.                                                      *)
(***************************************************************************)
EXTENDS Integers, Sequences, FiniteSets, TLC

(***************************************************************************)
(* Bounds of the model.                                                    *)
(***************************************************************************)
\* moves accepted by the model in one room
MaxMoves == 9
\* moves accepted in a room before the model admits only regular moves: a
\* regular move comes from a bound player of a room with both slots bound
\* and names a cell that no slot of the room holds yet
MaxLoneMoves == 2
\* win and draw notices of one room after which the model submits no more
\* moves to it
MaxEnds == 2

\* moves accepted in each room while connections change rooms (SpecRooms)
MaxVisitMoves == 1

\* 'timer' requests of a party leader the model submits
MaxLobbies == 2
\* saves of one document that may be in flight together
MaxPending == 2
\* startGameClock calls the model follows
MaxRaces == 2
\* ticks of a lobby countdown after which the model submits no further
\* 'timer' request
MaxLate == 2
\* saves the model lets fail inside interval callbacks
MaxFailures == 1

(***************************************************************************)
(* Program constants.                                                      *)
(***************************************************************************)
\* server.ts:177  let countDown = 5
LobbyStart == 5
\* server.ts:238  let time = 120
RaceStart == 120
\* server.ts:151  if (moveCount >= 3)
MinWinMoves == 3
\* server.ts:162  user1.moves.length + user2.moves.length >= 9
BoardFull == 9

None == "none"
\* GetGameDetail finds no entry for the room
NoGame == [exists |-> FALSE]

Rooms == {"R1"}
\* the rooms of SpecRooms: a second room beside the one the games are
\* played in
AllRooms == Rooms \cup {"R2"}
Sockets == {"s1", "s2"}
Users == {"userA", "userB", "userC"}
\* the user a connection speaks for (payload.userId of its joinRoom)
UserOf == [s \in Sockets |-> IF s = "s1" THEN "userA" ELSE "userB"]
\* payload.username
NameOf == [u \in Users |-> IF u = "userA" THEN "nameA"
                           ELSE IF u = "userB" THEN "nameB" ELSE "nameC"]
Cells == 0..8

\* an array of move indices; the handlers read its length and CheckWin its
\* membership, never the order, so the array is kept as cell -> multiplicity
NoMoves == [c \in Cells |-> 0]
Push(moves, c) == [moves EXCEPT ![c] = @ + 1]
Length(moves) ==
    moves[0] + moves[1] + moves[2] + moves[3] + moves[4] + moves[5]
      + moves[6] + moves[7] + moves[8]
Held(moves) == {c \in Cells : moves[c] > 0}

EmptySlot == [userId |-> None, username |-> None, moves |-> NoMoves]

VARIABLES
    users,        \* AddUser/UserLeft registry: socket id -> room id
    gameDetail,   \* NewGame/GetGameDetail store: room id -> {user1, user2}
    socketRooms,  \* socket.join: the rooms each socket belongs to
    lastEmit,     \* what the latest handler run emitted, in order
    wins,         \* 'win' notices broadcast to each room so far
    draws,        \* 'draw' notices broadcast to each room so far
    lastMover,    \* userId of the latest accepted move of each room
    play          \* how the room's moves so far were submitted:
                  \* "alternating", "regular" or "irregular"

mvars == <<users, gameDetail, socketRooms, lastEmit, wins, draws,
           lastMover, play>>

VARIABLES
    db,           \* the persisted TypeRaceGame documents: game id -> document
    lobbies,      \* the lobby intervals created by 'timer', in creation order
    races,        \* the startGameClock calls, in call order
    timers,       \* the live intervals in the order they fire next: all have
                  \* a period of 1000 ms, so the runtime keeps them in one list,
                  \* fires its head and puts an interval that fired, or a new
                  \* one, at its end
    lastReq,      \* the 'timer' request handled by the latest step, if any,
                  \* and what it emitted
    alive         \* the server process is running

cvars == <<db, lobbies, races, timers, lastReq, alive>>

vars == <<mvars, cvars>>

(***************************************************************************)
(* MatchState store and WinEvaluator (not part of server.ts).              *)
(***************************************************************************)
WinPatterns ==
    {{0,1,2}, {3,4,5}, {6,7,8}, {0,3,6}, {1,4,7}, {2,5,8}, {0,4,8}, {2,4,6}}

AddUser(reg, s, roomId) == [reg EXCEPT ![s] = roomId]

\* createIfAbsent + bindPlayer: first unoccupied slot; a player already
\* bound keeps its slot; with both slots taken slot B is overwritten
NewGame(gd, roomId, userId, username) ==
    LET g == IF gd[roomId] = NoGame
             THEN [exists |-> TRUE, user1 |-> EmptySlot, user2 |-> EmptySlot]
             ELSE gd[roomId]
    IN  IF g.user1.userId = userId \/ g.user2.userId = userId
        THEN [gd EXCEPT ![roomId] = g]
        ELSE IF g.user1.userId = None
        THEN [gd EXCEPT ![roomId] =
                 [g EXCEPT !.user1.userId = userId,
                           !.user1.username = username]]
        ELSE [gd EXCEPT ![roomId] =
                 [g EXCEPT !.user2.userId = userId,
                           !.user2.username = username]]

GetGameDetail(gd, roomId) == gd[roomId]

\* the moves CheckWin evaluates: those of the slot the caller is bound to
MovesOf(room, userId) ==
    IF room.user1.userId = userId THEN room.user1.moves ELSE room.user2.moves

WinningPattern(moves) ==
    IF \E p \in WinPatterns : p \subseteq Held(moves)
    THEN CHOOSE p \in WinPatterns : p \subseteq Held(moves)
    ELSE {}

CheckWin(gd, roomId, userId) ==
    LET m == MovesOf(gd[roomId], userId)
    IN  [isWin |-> \E p \in WinPatterns : p \subseteq Held(m),
         pattern |-> WinningPattern(m)]

(***************************************************************************)
(* socket.on('joinRoom')                                                   *)
(***************************************************************************)
TotalMoves(room) == Length(room.user1.moves) + Length(room.user2.moves)

RoomMoves(r) == IF gameDetail[r] = NoGame THEN 0 ELSE TotalMoves(gameDetail[r])

JoinRoom(s, roomId) ==
    /\ RoomMoves(roomId) < MaxLoneMoves
    /\ users' = AddUser(users, s, roomId)
    /\ gameDetail' = NewGame(gameDetail, roomId, UserOf[s], NameOf[UserOf[s]])
    /\ socketRooms' = [socketRooms EXCEPT ![s] = @ \cup {roomId}]
    /\ lastEmit' = <<[to |-> s, type |-> "message"]>>
    /\ UNCHANGED <<wins, draws, lastMover, play, cvars>>

(***************************************************************************)
(* socket.on('move')                                                       *)
(***************************************************************************)
LeaveNoticeNever(room, roomId) == <<>>

\* lines 132-134
LeaveNotice(room, roomId) ==
    IF room.user1.userId = None \/ room.user2.userId = None
    THEN <<[to |-> roomId, type |-> "userLeave"]>>
    ELSE <<>>

\* lines 136-144: the slot the move is pushed to
RecordMove(room, userId, move) ==
    IF room.user1.userId = userId
    THEN [room EXCEPT !.user1.moves = Push(@, move)]
    ELSE [room EXCEPT !.user2.moves = Push(@, move)]

MoveCount(room, userId) == Length(MovesOf(room, userId))

\* lines 146-149 (the notice also carries payload.move, which nothing that
\* follows reads)
MoveNotice(roomId, userId, move) ==
    [to |-> roomId, type |-> "move", userId |-> userId]

\* line 151
CheckDue(moveCount) == moveCount >= MinWinMoves

DrawDueLate(room) == TotalMoves(room) > BoardFull

\* line 162
DrawDue(room) == TotalMoves(room) >= BoardFull

\* lines 151-168: the end-of-game notice of a move, after the push
EndNotice(gd, roomId, userId) ==
    IF ~CheckDue(MoveCount(gd[roomId], userId)) THEN <<>>
    ELSE IF CheckWin(gd, roomId, userId).isWin
    THEN <<[to |-> roomId, type |-> "win", userId |-> userId,
            pattern |-> CheckWin(gd, roomId, userId).pattern]>>
    ELSE IF DrawDue(gd[roomId])
    THEN <<[to |-> roomId, type |-> "draw"]>>
    ELSE <<>>

MoveEmitsEndFirst(gdOld, gdNew, roomId, userId, move) ==
    LeaveNotice(gdOld[roomId], roomId)
      \o EndNotice(gdNew, roomId, userId)
      \o <<MoveNotice(roomId, userId, move)>>

\* lines 132-168: everything one move emits, in emission order
MoveEmits(gdOld, gdNew, roomId, userId, move) ==
    LeaveNotice(gdOld[roomId], roomId)
      \o <<MoveNotice(roomId, userId, move)>>
      \o EndNotice(gdNew, roomId, userId)

CountType(em, t) == Cardinality({i \in DOMAIN em : em[i].type = t})

TwoBound(room) == room.user1.userId # None /\ room.user2.userId # None

\* a move of a bound player of a room with both slots bound, on a cell that
\* no slot holds yet
Regular(room, userId, move) ==
    /\ TwoBound(room)
    /\ userId \in {room.user1.userId, room.user2.userId}
    /\ move \notin Held(room.user1.moves) \cup Held(room.user2.moves)

\* GetGameDetail found no room: line 132 throws, the catch logs
MoveNoRoom(roomId, userId, move) ==
    /\ GetGameDetail(gameDetail, roomId) = NoGame
    /\ lastEmit' = <<>>
    /\ UNCHANGED <<users, gameDetail, socketRooms, wins, draws,
                   lastMover, play, cvars>>

Move(roomId, userId, move) ==
    /\ GetGameDetail(gameDetail, roomId) # NoGame
    /\ LET room == GetGameDetail(gameDetail, roomId)
           gd2 == [gameDetail EXCEPT ![roomId] = RecordMove(room, userId, move)]
           em == MoveEmits(gameDetail, gd2, roomId, userId, move)
       IN  /\ TotalMoves(room) < MaxMoves
           /\ wins[roomId] + draws[roomId] < MaxEnds
           /\ \/ TotalMoves(room) < MaxLoneMoves
              \/ play[roomId] # "irregular" /\ Regular(room, userId, move)
           /\ gameDetail' = gd2
           /\ lastEmit' = em
           /\ wins' = [wins EXCEPT ![roomId] = @ + CountType(em, "win")]
           /\ draws' = [draws EXCEPT ![roomId] = @ + CountType(em, "draw")]
           /\ lastMover' = [lastMover EXCEPT ![roomId] = userId]
           /\ play' = [play EXCEPT ![roomId] =
                         IF @ = "irregular" \/ ~Regular(room, userId, move)
                         THEN "irregular"
                         ELSE IF @ = "alternating" /\ userId # lastMover[roomId]
                         THEN "alternating"
                         ELSE "regular"]
    /\ UNCHANGED <<users, socketRooms, cvars>>

MatchInit ==
    /\ users = [s \in Sockets |-> None]
    /\ gameDetail = [r \in AllRooms |-> NoGame]
    /\ socketRooms = [s \in Sockets |-> {}]
    /\ lastEmit = <<>>
    /\ wins = [r \in AllRooms |-> 0]
    /\ draws = [r \in AllRooms |-> 0]
    /\ lastMover = [r \in AllRooms |-> None]
    /\ play = [r \in AllRooms |-> "alternating"]

MatchNext ==
    \/ \E s \in Sockets, r \in Rooms : JoinRoom(s, r)
    \/ \E r \in Rooms, u \in Users, c \in Cells : MoveNoRoom(r, u, c)
    \/ \E r \in Rooms, u \in Users, c \in Cells : Move(r, u, c)

\* the cells named by the moves of SpecRooms: a corner and the centre
VisitCells == {0, 4}

\* a move in a room that has seen fewer than MaxVisitMoves moves
VisitMove(roomId, userId, move) ==
    /\ RoomMoves(roomId) < MaxVisitMoves
    /\ Move(roomId, userId, move)

\* connections that join one room after another, and the moves made
\* meanwhile
RoomsNext ==
    \/ \E s \in Sockets, r \in AllRooms : JoinRoom(s, r)
    \/ \E r \in AllRooms, u \in Users, c \in VisitCells : MoveNoRoom(r, u, c)
    \/ \E r \in AllRooms, u \in Users, c \in VisitCells : VisitMove(r, u, c)


(***************************************************************************)
(* Type race: the persisted game and its players.                          *)
(***************************************************************************)
GameIds == {"g1", "g0"}
\* the stored games: g1, and g2 beside it for countdowns of two games
\* (SpecOverlap); no document has the id g0
Stored == {"g1", "g2"}
Games == GameIds \cup Stored
PlayerIds == {"leader", "member", "stranger"}

NoDoc == [exists |-> FALSE]

\* the document of game g1 as created by the lobby routes: open, not over,
\* no startTime, a party leader and one more player
NewDoc ==
    [exists |-> TRUE, isOpen |-> TRUE, isOver |-> FALSE, startTime |-> FALSE,
     players |-> [p \in {"leader", "member"} |->
                     [isPartyLeader |-> (p = "leader")]]]

\* TypeRaceGame.findById: a snapshot of the stored document, or none
FindById(store, gameId) == store[gameId]

SaveWhole(store, gameId, game, paths) == [store EXCEPT ![gameId] = game]

\* game.save(): the paths the caller assigned since the load are written
\* to the stored document, the others stay as stored
Save(store, gameId, game, paths) ==
    [store EXCEPT ![gameId] =
        [f \in DOMAIN @ |-> IF f \in paths THEN game[f] ELSE @[f]]]

\* game.players.id(playerId), and the test of line 181
HasPlayer(game, playerId) ==
    game # NoDoc /\ playerId \in DOMAIN game.players

\* line 189
IsPartyLeader(game, playerId) ==
    HasPlayer(game, playerId) /\ game.players[playerId].isPartyLeader

\* calculateTime of utils/game-clock: seconds as <<minutes, seconds>>
calculateTime(time) == <<time \div 60, time % 60>>
SecondsOf(shown) == shown[1] * 60 + shown[2]

RECURSIVE SumFailed(_)
SumFailed(insts) ==
    IF insts = <<>> THEN 0 ELSE Head(insts).failed + SumFailed(Tail(insts))

\* failed saves of interval callbacks so far
Failures == SumFailed(lobbies) + SumFailed(races)

\* a request comes beside countdowns that ticked at most MaxLate times
EarlyLobby ==
    \A i \in DOMAIN lobbies : Len(lobbies[i].ticks) <= MaxLate

\* no load or save is in flight other than the terminal save of a live
\* interval: the others answer before the next interval fires
Settled ==
    /\ \A i \in DOMAIN lobbies : lobbies[i].active \/ lobbies[i].saving = 0
    /\ \A j \in DOMAIN races :
          /\ races[j].active \/ races[j].saving = 0
          /\ races[j].pc \notin {"load", "save"}

LobbyTimer(i) == <<"lobby", i>>
RaceTimer(j) == <<"race", j>>

\* the interval t is the next to fire
Fires(t) == alive /\ timers # <<>> /\ Head(timers) = t /\ Settled

RearmedNever == Tail(timers)

\* the list after its head fired and was scheduled again
Rearmed == Append(Tail(timers), Head(timers))

ClearedAll(t) == <<>>

\* clearInterval
Cleared(t) == SelectSeq(timers, LAMBDA x : x # t)

(***************************************************************************)
(* socket.on('timer')                                                      *)
(***************************************************************************)
NoPlayerEmitsSnapshotFirst(game, gameId) ==
    <<[to |-> gameId, type |-> "update-game", game |-> game],
      [to |-> gameId, type |-> "timer", countDown |-> 0,
       msg |-> "There is no Player, Try Again"]>>

\* lines 181-187
NoPlayerEmits(game, gameId) ==
    <<[to |-> gameId, type |-> "timer", countDown |-> 0,
       msg |-> "There is no Player, Try Again"],
      [to |-> gameId, type |-> "update-game", game |-> game]>>

\* lines 189-190 and 207: the interval of a party leader's request
NewLobby(game, gameId) ==
    [gameId |-> gameId, countDown |-> LobbyStart, game |-> game,
     active |-> TRUE, saving |-> 0,
     ticks |-> <<>>, entered |-> 0, closed |-> 0, failed |-> 0]

\* the latest step handled no 'timer' request
NoReq == [playerId |-> None]

\* lines 175-212 with findById answering
Timer(playerId, gameId) ==
    /\ alive
    /\ LET game == FindById(db, gameId)
           em == IF ~HasPlayer(game, playerId)
                 THEN NoPlayerEmits(game, gameId) ELSE <<>>
           start == IsPartyLeader(game, playerId)
       IN  /\ start => Len(lobbies) < MaxLobbies
           /\ lobbies' = IF start THEN Append(lobbies, NewLobby(game, gameId))
                         ELSE lobbies
           /\ timers' = IF start
                        THEN Append(timers, LobbyTimer(Len(lobbies) + 1))
                        ELSE timers
           /\ lastReq' =
                  [playerId |-> playerId, gameId |-> gameId, emitted |-> em,
                   loaded |-> TRUE,
                   known |-> HasPlayer(game, playerId),
                   timer |-> IF start THEN Len(lobbies) + 1 ELSE 0]
    /\ UNCHANGED <<db, races, alive, mvars>>

\* a request beside countdowns that have just begun
TimerRequest(playerId, gameId) ==
    /\ EarlyLobby
    /\ Timer(playerId, gameId)

\* a request in the last seconds of a race
LateTimerRequest(playerId, gameId) ==
    /\ \E j \in DOMAIN races :
          races[j].active /\ races[j].time <= LobbyStart
    /\ Timer(playerId, gameId)

\* lines 178 and 209-211: findById rejects, the catch logs
TimerRequestFails(playerId, gameId) ==
    /\ alive
    /\ EarlyLobby
    /\ lastReq' =
           [playerId |-> playerId, gameId |-> gameId, emitted |-> <<>>,
            loaded |-> FALSE, known |-> FALSE, timer |-> 0]
    /\ UNCHANGED <<db, lobbies, races, timers, alive, mvars>>

LobbyTickDueLate(countDown) == countDown > 0

\* line 191
LobbyTickDue(countDown) == countDown >= 0

\* lines 191-197: one firing of the interval with countDown >= 0
LobbyTick(i) ==
    /\ Fires(LobbyTimer(i))
    /\ LobbyTickDue(lobbies[i].countDown)
    /\ lobbies' = [lobbies EXCEPT ![i] =
           [@ EXCEPT !.ticks = Append(@, lobbies[i].countDown),
                     !.countDown = @ - 1]]
    /\ timers' = Rearmed
    /\ lastReq' = NoReq
    /\ UNCHANGED <<db, races, alive, mvars>>

\* lines 198-201: one firing with countDown < 0, up to the awaited save
LobbyTerminal(i) ==
    /\ Fires(LobbyTimer(i))
    /\ ~LobbyTickDue(lobbies[i].countDown)
    /\ lobbies[i].game # NoDoc
    /\ lobbies[i].saving < MaxPending
    /\ lobbies' = [lobbies EXCEPT ![i] =
           [@ EXCEPT !.game.isOpen = FALSE,
                     !.saving = @ + 1,
                     !.entered = @ + 1]]
    /\ timers' = Rearmed
    /\ lastReq' = NoReq
    /\ UNCHANGED <<db, races, alive, mvars>>

\* startGameClock up to its first await (line 232)
NewRace(gameId) ==
    [gameId |-> gameId, pc |-> "load", game |-> NoDoc, time |-> RaceStart,
     active |-> FALSE, saving |-> 0,
     shown |-> 0, last |-> <<>>, inOrder |-> TRUE,
     entered |-> 0, finished |-> 0, failed |-> 0]

\* lines 201-204: the save answers; the snapshot goes out, startGameClock is
\* called and the interval is cleared
LobbySaved(i) ==
    /\ alive
    /\ lobbies[i].saving > 0
    /\ Len(races) < MaxRaces
    /\ db' = Save(db, lobbies[i].gameId, lobbies[i].game, {"isOpen"})
    /\ races' = Append(races, NewRace(lobbies[i].gameId))
    /\ lobbies' = [lobbies EXCEPT ![i] =
           [@ EXCEPT !.saving = @ - 1,
                     !.closed = @ + 1,
                     !.active = FALSE]]
    /\ timers' = Cleared(LobbyTimer(i))
    /\ lastReq' = NoReq
    /\ UNCHANGED <<alive, mvars>>

\* line 201: the save rejects inside the interval callback; nothing catches
\* it, so the rejection is unhandled: the runtime either only reports it or
\* ends the process
LobbySaveFails(i, fatal) ==
    /\ alive
    /\ lobbies[i].saving > 0
    /\ Failures < MaxFailures
    /\ lobbies' = [lobbies EXCEPT ![i] =
           [@ EXCEPT !.saving = @ - 1, !.failed = @ + 1]]
    /\ alive' = ~fatal
    /\ lastReq' = NoReq
    /\ UNCHANGED <<db, races, timers, mvars>>

(***************************************************************************)
(* startGameClock                                                          *)
(***************************************************************************)
\* lines 232-236: findById answers; startTime is set and the save awaited
RaceLoaded(j) ==
    /\ alive
    /\ races[j].pc = "load"
    /\ LET game == FindById(db, races[j].gameId)
       IN  races' = [races EXCEPT ![j] =
               IF game = NoDoc
               THEN [@ EXCEPT !.pc = "absent"]
               ELSE [@ EXCEPT !.pc = "save",
                              !.game = [game EXCEPT !.startTime = TRUE]]]
    /\ lastReq' = NoReq
    /\ UNCHANGED <<db, lobbies, timers, alive, mvars>>

\* lines 232/236 and 254-256: the load or the first save rejects, the catch
\* logs and no interval is created
RaceStartFails(j) ==
    /\ alive
    /\ races[j].pc \in {"load", "save"}
    /\ races' = [races EXCEPT ![j] = [@ EXCEPT !.pc = "failed"]]
    /\ lastReq' = NoReq
    /\ UNCHANGED <<db, lobbies, timers, alive, mvars>>

RaceStartUnsaved(j) ==
    /\ alive
    /\ races[j].pc = "save"
    /\ races' = [races EXCEPT ![j] =
           [@ EXCEPT !.pc = "run", !.active = TRUE]]
    /\ timers' = Append(timers, RaceTimer(j))
    /\ lastReq' = NoReq
    /\ UNCHANGED <<db, lobbies, alive, mvars>>

\* lines 236-239 and 253: the first save answers and the interval is created
RaceStartSaved(j) ==
    /\ alive
    /\ races[j].pc = "save"
    /\ db' = Save(db, races[j].gameId, races[j].game, {"startTime"})
    /\ races' = [races EXCEPT ![j] =
           [@ EXCEPT !.pc = "run", !.active = TRUE]]
    /\ timers' = Append(timers, RaceTimer(j))
    /\ lastReq' = NoReq
    /\ UNCHANGED <<lobbies, alive, mvars>>

RaceTickDueLate(time) == time > 0

\* line 240
RaceTickDue(time) == time >= 0

\* lines 240-246: one firing with time >= 0
RaceTick(j) ==
    /\ Fires(RaceTimer(j))
    /\ RaceTickDue(races[j].time)
    /\ LET formatTime == calculateTime(races[j].time)
       IN  races' = [races EXCEPT ![j] =
               [@ EXCEPT !.shown = @ + 1,
                         !.last = formatTime,
                         !.inOrder =
                            /\ @
                            /\ IF races[j].shown = 0
                               THEN SecondsOf(formatTime) = RaceStart
                               ELSE SecondsOf(formatTime)
                                      = SecondsOf(races[j].last) - 1,
                         !.time = @ - 1]]
    /\ timers' = Rearmed
    /\ lastReq' = NoReq
    /\ UNCHANGED <<db, lobbies, alive, mvars>>

\* lines 247-249: one firing with time < 0, up to the awaited save
RaceTerminal(j) ==
    /\ Fires(RaceTimer(j))
    /\ ~RaceTickDue(races[j].time)
    /\ races[j].saving < MaxPending
    /\ races' = [races EXCEPT ![j] =
           [@ EXCEPT !.game.isOver = TRUE,
                     !.saving = @ + 1,
                     !.entered = @ + 1]]
    /\ timers' = Rearmed
    /\ lastReq' = NoReq
    /\ UNCHANGED <<db, lobbies, alive, mvars>>

\* lines 249-251: the save answers; the snapshot goes out and the interval
\* is cleared
RaceSaved(j) ==
    /\ alive
    /\ races[j].pc = "run"
    /\ races[j].saving > 0
    /\ db' = Save(db, races[j].gameId, races[j].game, {"isOver"})
    /\ races' = [races EXCEPT ![j] =
           [@ EXCEPT !.saving = @ - 1,
                     !.finished = @ + 1,
                     !.active = FALSE]]
    /\ timers' = Cleared(RaceTimer(j))
    /\ lastReq' = NoReq
    /\ UNCHANGED <<lobbies, alive, mvars>>

\* line 249: the save rejects inside the interval callback, unhandled
RaceSaveFails(j, fatal) ==
    /\ alive
    /\ races[j].pc = "run"
    /\ races[j].saving > 0
    /\ Failures < MaxFailures
    /\ races' = [races EXCEPT ![j] =
           [@ EXCEPT !.saving = @ - 1, !.failed = @ + 1]]
    /\ alive' = ~fatal
    /\ lastReq' = NoReq
    /\ UNCHANGED <<db, lobbies, timers, mvars>>

ClockInit ==
    /\ db = [g \in Games |-> IF g \in Stored THEN NewDoc ELSE NoDoc]
    /\ lobbies = <<>>
    /\ races = <<>>
    /\ timers = <<>>
    /\ lastReq = NoReq
    /\ alive = TRUE

ClockNext ==
    \/ \E p \in PlayerIds, g \in GameIds : TimerRequest(p, g)
    \/ \E p \in PlayerIds, g \in GameIds : TimerRequestFails(p, g)
    \/ \E i \in DOMAIN lobbies : LobbyTick(i)
    \/ \E i \in DOMAIN lobbies : LobbyTerminal(i)
    \/ \E i \in DOMAIN lobbies : LobbySaved(i)
    \/ \E i \in DOMAIN lobbies, fatal \in BOOLEAN : LobbySaveFails(i, fatal)
    \/ \E j \in DOMAIN races : RaceLoaded(j)
    \/ \E j \in DOMAIN races : RaceStartFails(j)
    \/ \E j \in DOMAIN races : RaceStartSaved(j)
    \/ \E j \in DOMAIN races : RaceTick(j)
    \/ \E j \in DOMAIN races : RaceTerminal(j)
    \/ \E j \in DOMAIN races : RaceSaved(j)
    \/ \E j \in DOMAIN races, fatal \in BOOLEAN : RaceSaveFails(j, fatal)

ActiveRaces == {j \in DOMAIN races : races[j].active}

\* no save is in flight
Answered ==
    /\ \A i \in DOMAIN lobbies : lobbies[i].saving = 0
    /\ \A j \in DOMAIN races : races[j].saving = 0

\* an interval fires, or a load or save answers
Advance ==
    \/ \E i \in DOMAIN lobbies : Answered /\ LobbyTick(i)
    \/ \E i \in DOMAIN lobbies : Answered /\ LobbyTerminal(i)
    \/ \E i \in DOMAIN lobbies : LobbySaved(i)
    \/ \E j \in DOMAIN races : RaceLoaded(j)
    \/ \E j \in DOMAIN races : RaceStartSaved(j)
    \/ \E j \in DOMAIN races : Answered /\ RaceTick(j)
    \/ \E j \in DOMAIN races : Answered /\ RaceTerminal(j)
    \/ \E j \in DOMAIN races : RaceSaved(j)

\* the countdowns of two games, and requests that come late in a race; every
\* load and save answers, and does so before the next interval fires
OverlapNext ==
    \/ \E g \in Stored : TimerRequest("leader", g)
    \/ \E g \in Stored : LateTimerRequest("leader", g)
    \/ Advance

\* the state after the module is loaded: no room, no countdown
Init == MatchInit /\ ClockInit

SpecMatch == Init /\ [][MatchNext]_vars

SpecClock == Init /\ [][ClockNext]_vars

SpecRooms == Init /\ [][RoomsNext]_vars

SpecOverlap == Init /\ [][OverlapNext]_vars

\* SpecOverlap with intervals that keep firing and loads and saves that
\* answer
SpecLive == Init /\ [][OverlapNext]_vars /\ WF_vars(Advance)

(***************************************************************************)
(* Properties of the move handler.                                         *)
(***************************************************************************)
HasTriple(moves) == \E p \in WinPatterns : p \subseteq Held(moves)

\* the latest handler run was a move of userId u in room r
MovedLast(r, u) ==
    \E i \in DOMAIN lastEmit :
        /\ lastEmit[i].type = "move"
        /\ lastEmit[i].to = r
        /\ lastEmit[i].userId = u

Emitted(t) == \E i \in DOMAIN lastEmit : lastEmit[i].type = t

\* C1: once the two bound players of a room have submitted 9 moves on
\* pairwise distinct cells, in any split and order, the room has received
\* exactly one end-of-game notice (one win or one draw, not both, not none).
C1_ExactlyOneEnd ==
    \A r \in Rooms :
        (play[r] # "irregular" /\ RoomMoves(r) = BoardFull)
            => wins[r] + draws[r] = 1

\* C2: a move that brings the room's total to 9 while the mover's moves hold
\* no winning triple is answered with a draw notice, whatever the mover's
\* move count; a move after which the mover's moves hold a winning triple is
\* answered with a win notice and no draw notice.
C2_DrawOrWinOnMove ==
    \A r \in Rooms, u \in Users :
        (MovedLast(r, u) /\ gameDetail[r] # NoGame) =>
            LET m == MovesOf(gameDetail[r], u)
            IN  /\ (RoomMoves(r) = BoardFull /\ ~HasTriple(m)) => Emitted("draw")
                /\ HasTriple(m) => (Emitted("win") /\ ~Emitted("draw"))

\* C3: when the two bound players alternate on distinct cells until all 9
\* cells are filled and neither ever holds a winning triple, the 9th move
\* is answered with a draw, it is the room's only draw, and the room never
\* received a win; before the 9th move it received no draw either.
C3_AlternatingFillDraws ==
    \A r \in Rooms :
        (/\ play[r] = "alternating"
         /\ gameDetail[r] # NoGame
         /\ ~HasTriple(gameDetail[r].user1.moves)
         /\ ~HasTriple(gameDetail[r].user2.moves))
        => /\ wins[r] = 0
           /\ draws[r] = IF RoomMoves(r) = BoardFull THEN 1 ELSE 0
           /\ RoomMoves(r) = BoardFull
                 => lastEmit[Len(lastEmit)] = [to |-> r, type |-> "draw"]

C3_Witness ==
    \E r \in Rooms :
        /\ play[r] = "alternating"
        /\ RoomMoves(r) = BoardFull
        /\ ~HasTriple(gameDetail[r].user1.moves)
        /\ ~HasTriple(gameDetail[r].user2.moves)
        /\ draws[r] = 1
        /\ wins[r] = 0

\* C4: within one move the move notice goes to the room before the win or
\* draw notice: every win or draw notice a handler run emits directly
\* follows, in the same run, the move notice of the same room (and, for a
\* win, of the same user).
C4_MoveNoticeFirst ==
    \A i \in DOMAIN lastEmit :
        lastEmit[i].type \in {"win", "draw"} =>
            /\ i > 1
            /\ lastEmit[i - 1].type = "move"
            /\ lastEmit[i - 1].to = lastEmit[i].to
            /\ lastEmit[i].type = "win"
                  => lastEmit[i - 1].userId = lastEmit[i].userId

C4_Witness ==
    /\ Len(lastEmit) = 2
    /\ lastEmit[1].type = "move"
    /\ lastEmit[2].type = "win"
    /\ lastEmit[1].userId = lastEmit[2].userId

\* C12: a move whose userId is bound to neither slot of the room is
\* rejected: no slot's moves change and no move notice goes out, so every
\* move notice a handler run emits names a user bound to a slot of the room.
C12_UnboundMoveRejected ==
    \A i \in DOMAIN lastEmit :
        lastEmit[i].type = "move" =>
            lastEmit[i].userId \in
                {gameDetail[lastEmit[i].to].user1.userId,
                 gameDetail[lastEmit[i].to].user2.userId}

\* C13: once a room has received a win or a draw notice, no step changes
\* the moves of its slots or emits a move, win or draw notice to it.
C13_NoMoveAfterEnd ==
    [][\A r \in Rooms :
          wins[r] + draws[r] > 0 =>
              /\ gameDetail'[r].user1.moves = gameDetail[r].user1.moves
              /\ gameDetail'[r].user2.moves = gameDetail[r].user2.moves
              /\ \A i \in DOMAIN lastEmit' :
                    ~(/\ lastEmit'[i].to = r
                      /\ lastEmit'[i].type \in {"move", "win", "draw"})]_vars

\* io.in(room).emit reaches the connections that socket.join put in the room
Receives(s, notice) == notice.to \in socketRooms[s]

\* C14: a connection that joined a room and later another one belongs to
\* the later one only: a notice broadcast to a room reaches no connection
\* whose latest joinRoom named another room.
C14_MovedToNewRoom ==
    \A s \in Sockets :
        \A i \in DOMAIN lastEmit :
            (lastEmit[i].to \in AllRooms /\ Receives(s, lastEmit[i]))
                => lastEmit[i].to = users[s]

\* C20: a move in a room with an unbound slot is announced by the
\* participant-left notice first and the move notice right after it, and
\* the move is recorded: the room's stored moves grow by one in that step.
C20_LeaveThenMove ==
    [][\A r \in Rooms :
          /\ (\E i \in DOMAIN lastEmit' :
                  /\ lastEmit'[i].to = r
                  /\ lastEmit'[i].type = "move"
                  /\ ~TwoBound(gameDetail'[r]))
                => /\ lastEmit'[1] = [to |-> r, type |-> "userLeave"]
                   /\ lastEmit'[2].type = "move"
          /\ (\E i \in DOMAIN lastEmit' :
                  lastEmit'[i] = [to |-> r, type |-> "userLeave"])
                => /\ Len(lastEmit') >= 2
                   /\ lastEmit'[1].type = "userLeave"
                   /\ lastEmit'[2].type = "move"
                   /\ lastEmit'[2].to = r
                   /\ RoomMoves(r)' = RoomMoves(r) + 1]_vars

C20_Witness ==
    \E r \in Rooms :
        /\ gameDetail[r] # NoGame
        /\ ~TwoBound(gameDetail[r])
        /\ Len(lastEmit) = 2
        /\ lastEmit[1] = [to |-> r, type |-> "userLeave"]
        /\ lastEmit[2].type = "move"
        /\ RoomMoves(r) = 2

(***************************************************************************)
(* Properties of the countdowns.                                           *)
(***************************************************************************)
\* C5: a lobby countdown emits the counts 5,4,3,2,1,0 in that order, one per
\* firing, and nothing else; it sets isOpen=false, persists and hands off to
\* the race countdown only after all six, and emits no tick afterwards.
C5_LobbyTicks ==
    \A i \in DOMAIN lobbies :
        LET l == lobbies[i]
        IN  /\ Len(l.ticks) <= 6
            /\ \A k \in DOMAIN l.ticks : l.ticks[k] = 6 - k
            /\ (l.entered > 0 \/ l.closed > 0)
                  => l.ticks = <<5, 4, 3, 2, 1, 0>>
            /\ l.closed > 0 => ~db[l.gameId].isOpen

C5_Witness ==
    \E i \in DOMAIN lobbies :
        /\ lobbies[i].closed = 1
        /\ lobbies[i].ticks = <<5, 4, 3, 2, 1, 0>>
        /\ ~db[lobbies[i].gameId].isOpen
        /\ \E j \in DOMAIN races : races[j].gameId = lobbies[i].gameId

\* C6: a race countdown emits 121 ticks, the remaining time going from 120
\* down to 0 by one per firing; it sets isOver=true, persists and clears its
\* interval only after all of them.
C6_RaceTicks ==
    \A j \in DOMAIN races :
        LET r == races[j]
        IN  /\ r.inOrder
            /\ r.shown <= 121
            /\ r.shown > 0 => SecondsOf(r.last) = 121 - r.shown
            /\ (r.entered > 0 \/ r.finished > 0)
                  => (r.shown = 121 /\ SecondsOf(r.last) = 0)
            /\ r.finished > 0 => (~r.active /\ db[r.gameId].isOver)
            /\ db[r.gameId].isOver =>
                  \E k \in DOMAIN races :
                      /\ races[k].gameId = r.gameId
                      /\ races[k].shown = 121
                      /\ races[k].finished > 0

C6_Witness ==
    \E j \in DOMAIN races :
        /\ races[j].finished = 1
        /\ races[j].shown = 121
        /\ races[j].last = <<0, 0>>
        /\ db[races[j].gameId].isOver

\* C7: at most one race countdown interval is live per game at any time.
C7_OneRacePerGame ==
    \A g \in GameIds :
        Cardinality({j \in ActiveRaces : races[j].gameId = g}) <= 1

\* C8: each countdown runs its terminal step (set the flag and persist,
\* broadcast, hand off, clear the interval) at most once, also when a firing
\* comes while the save of the terminal step is still pending.
C8_TerminalOnce ==
    /\ \A i \in DOMAIN lobbies :
          lobbies[i].entered <= 1 /\ lobbies[i].closed <= 1
    /\ \A j \in DOMAIN races :
          races[j].entered <= 1 /\ races[j].finished <= 1

\* C9: a countdown whose save failed during a tick has its interval
\* stopped: no later firing of it broadcasts or saves again.
C9_FailedSaveStopsTimer ==
    /\ \A i \in DOMAIN lobbies :
          lobbies[i].failed > 0 => ~(alive /\ lobbies[i].active)
    /\ \A j \in DOMAIN races :
          races[j].failed > 0 => ~(alive /\ races[j].active)

\* C10: a 'timer' request of a player of the game who is not the party
\* leader is answered with a NotAuthorized rejection and creates no
\* interval.
C10_NonLeaderRejected ==
    (/\ lastReq.playerId # None
     /\ lastReq.known
     /\ ~IsPartyLeader(db[lastReq.gameId], lastReq.playerId))
    => /\ lastReq.timer = 0
       /\ \E k \in DOMAIN lastReq.emitted :
              lastReq.emitted[k].type = "NotAuthorized"

\* C11: a 'timer' request whose game is absent or lacks the player sends the
\* room one timer message with count 0 and a note, then one game snapshot
\* (none when the game is absent), and nothing else; the step creates no
\* interval and leaves the stored documents as they were.
C11_NotFoundAnswer ==
    [][(/\ lastReq'.playerId # None
        /\ lastReq'.loaded
        /\ ~lastReq'.known)
       => /\ Len(lastReq'.emitted) = 2
          /\ lastReq'.emitted[1].to = lastReq'.gameId
          /\ lastReq'.emitted[1].type = "timer"
          /\ lastReq'.emitted[1].countDown = 0
          /\ lastReq'.emitted[1].msg # ""
          /\ lastReq'.emitted[2] =
                 [to |-> lastReq'.gameId, type |-> "update-game",
                  game |-> db[lastReq'.gameId]]
          /\ lastReq'.timer = 0
          /\ lobbies' = lobbies
          /\ races' = races
          /\ timers' = timers
          /\ db' = db]_vars

C11_Witness ==
    /\ lastReq.playerId # None
    /\ lastReq.loaded
    /\ lastReq.gameId = "g0"
    /\ Len(lastReq.emitted) = 2
    /\ lastReq.emitted[2].game = NoDoc

\* C15: a lobby interval and a race interval of the same game are never
\* live together.
C15_LobbyOrRace ==
    \A g \in GameIds :
        ~(/\ \E i \in DOMAIN lobbies :
                lobbies[i].active /\ lobbies[i].gameId = g
          /\ \E j \in ActiveRaces : races[j].gameId = g)

TimerGame(t) ==
    IF t[1] = "lobby" THEN lobbies[t[2]].gameId ELSE races[t[2]].gameId

\* what the server holds for game g: its document, its countdowns with
\* their counters, and its live intervals in firing order
LobbiesOf(g) ==
    [i \in {k \in DOMAIN lobbies : lobbies[k].gameId = g} |-> lobbies[i]]
RacesOf(g) ==
    [j \in {k \in DOMAIN races : races[k].gameId = g} |-> races[j]]
TimersOf(g) == SelectSeq(timers, LAMBDA t : TimerGame(t) = g)
GameState(g) == <<db[g], LobbiesOf(g), RacesOf(g), TimersOf(g)>>

\* C18: a step of a countdown changes the document, the counters and the
\* intervals of one game only, and countdowns of two games that run
\* interleaved each emit their full tick sequence: 5..0 before a lobby
\* countdown closes its game, 120..0 before a race ends it.
C18_PartitionedByGame ==
    /\ [][Cardinality({g \in Games : GameState(g)' # GameState(g)}) <= 1]_vars
    /\ [](\A i \in DOMAIN lobbies :
            /\ \A k \in DOMAIN lobbies[i].ticks : lobbies[i].ticks[k] = 6 - k
            /\ lobbies[i].entered > 0 => Len(lobbies[i].ticks) = 6)
    /\ [](\A j \in DOMAIN races :
            /\ races[j].inOrder
            /\ races[j].entered > 0 => races[j].shown = 121)

C18_Witness ==
    /\ \A g \in Stored :
          /\ db[g].isOver
          /\ \E i \in DOMAIN lobbies :
                lobbies[i].gameId = g /\ lobbies[i].closed = 1
          /\ \E j \in DOMAIN races :
                /\ races[j].gameId = g
                /\ races[j].finished = 1
                /\ races[j].shown = 121
    /\ timers = <<>>

\* C17: with intervals that fire and saves that answer, a game for which a
\* lobby countdown was started is closed in the end (isOpen=false stored),
\* a closed game is over in the end (isOver=true stored), and once a game
\* is over its intervals are all cleared in the end and stay so.
C17_CountdownEnds ==
    \A g \in Stored :
        /\ (\E i \in DOMAIN lobbies : lobbies[i].gameId = g)
              ~> ~db[g].isOpen
        /\ ~db[g].isOpen ~> db[g].isOver
        /\ db[g].isOver ~> [](TimersOf(g) = <<>>)

C17_Witness ==
    \E g \in Stored :
        /\ \E i \in DOMAIN lobbies : lobbies[i].gameId = g
        /\ ~db[g].isOpen
        /\ db[g].isOver
        /\ TimersOf(g) = <<>>
        /\ \A i \in DOMAIN lobbies : lobbies[i].gameId = g => ~lobbies[i].active
        /\ \A j \in DOMAIN races :
              races[j].gameId = g => (~races[j].active /\ races[j].pc = "run")

=============================================================================
